---------------------------- MODULE Spec2Model ----------------------------
(***************************************************************************)
(* Thumbnail extraction of quickraw: src/src/decode.rs (buffer unwrap,     *)
(* JPEG scan, metadata sniffing with fallback, get_thumbnail) and          *)
(* src/src/maker/canon.rs (the Canon decoder's thumbnail fallback chain).  *)
(*                                                                         *)
(* A byte is a number 0..255, a buffer a sequence of bytes.  Offsets are   *)
(* 0-based as in the source: byte i of a buffer b is b[i + 1].  A slice    *)
(* &buffer[s..e] is a view, modelled by its bounds <<s, e>> in the buffer  *)
(* it borrows from.  Option<T> is <<>> (None) or <<x>> (Some(x)).          *)
(***************************************************************************)
EXTENDS Integers, Sequences, FiniteSets, TLC

VARIABLES
    buffer,     \* the input buffer of the running function
    fn,         \* the function that runs
    pc,         \* its position
    start,      \* scan loops: `start`
    best,       \* scan loops: `best`, Option<(soi, len)>
    visited,    \* history: the candidate slices <<soi, end>> the loop matched
    meta,       \* the inputs besides the buffer (parser answers, decoder info)
    result      \* what the function returned, or that it panicked

vars == <<buffer, fn, pc, start, best, visited, meta, result>>

None == <<>>
Some(x) == <<x>>
IsSome(o) == o # <<>>
Unwrap(o) == o[1]

Min(S) == CHOOSE x \in S : \A y \in S : x <= y
Max(S) == CHOOSE x \in S : \A y \in S : x >= y

RECURSIVE Concat(_)
Concat(ss) == IF ss = <<>> THEN <<>> ELSE Head(ss) \o Concat(Tail(ss))

Zeros(n) == [i \in 1..n |-> 0]

\* the bytes of &buf[s..e]
Bytes(buf, s, e) == SubSeq(buf, s + 1, e)

(***************************************************************************)
(* Byte patterns of the source.                                            *)
(***************************************************************************)
SOI == <<255, 216, 255>>
EOI == <<255, 217>>
SOI2 == <<255, 216>>
APP0_JFIF == <<255, 224, 74, 70>>
APP1_EXIF == <<255, 225, 69, 120>>
FUJI_MAGIC == <<70, 85, 74, 73>>
CR3_FTYP == <<102, 116, 121, 112, 99, 114, 120, 32>>
EXIF_HEADER == <<69, 120, 105, 102, 0, 0>>
TIFF_LE == <<73, 73, 42, 0>>
TIFF_BE == <<77, 77, 0, 42>>

\* slice.windows(Len(pat)) at index i (0-based) equals pat
WindowAt(buf, i, pat) ==
    /\ i >= 0
    /\ i + Len(pat) <= Len(buf)
    /\ \A k \in 1..Len(pat) : buf[i + k] = pat[k]

\* buf[from..].windows(n).position(|w| w == pat): the first match, relative to from
Position(buf, from, pat) ==
    LET hits == {i \in from..(Len(buf) - Len(pat)) : WindowAt(buf, i, pat)}
    IN  IF hits = {} THEN None ELSE Some(Min(hits) - from)

(***************************************************************************)
(* The largest-JPEG-slice scan: one iteration of the while-let loop.       *)
(***************************************************************************)
\* decode.rs:77 / canon.rs:71,129: the next start-of-image marker from `from`
FindSoi(buf, from) == Position(buf, from, SOI)

\* decode.rs:79 / canon.rs:73,131: the end-of-image search starts after the marker
EoiSearchFrom_At2(soi) == soi + 2
EoiSearchFrom(soi) == soi + 3

FindEoi(buf, soi) == Position(buf, EoiSearchFrom(soi), EOI)

\* decode.rs:80 / canon.rs:74,132: let end = soi + 3 + rel_eoi + 2
CandidateEnd_Short(soi, rel_eoi) == EoiSearchFrom(soi) + rel_eoi + 1
CandidateEnd(soi, rel_eoi) == EoiSearchFrom(soi) + rel_eoi + 2

\* decode.rs:82-84 / canon.rs:76-78: keep the longer one, the earlier on a tie
UpdateBest_Last(b, soi, len) == Some(<<soi, len>>)
UpdateBest(b, soi, len) ==
    IF b = None \/ len > Unwrap(b)[2] THEN Some(<<soi, len>>) ELSE b

\* decode.rs:85 / canon.rs:79,137: start = end
ResumeAt_Soi(soi, end) == soi
ResumeAt(soi, end) == end

\* One evaluation of the loop head and body: matched (a candidate was found and
\* the loop goes on) or not (the while-let fails, or the else branch breaks).
ScanStep(buf, from, b) ==
    LET rs == FindSoi(buf, from) IN
    IF rs = None THEN [matched |-> FALSE, why |-> "no_soi"]
    ELSE LET soi == from + Unwrap(rs)
             re == FindEoi(buf, soi)
         IN  IF re = None THEN [matched |-> FALSE, why |-> "no_eoi"]
             ELSE LET end == CandidateEnd(soi, Unwrap(re))
                  IN  [matched |-> TRUE, soi |-> soi, end |-> end,
                       best |-> UpdateBest(b, soi, end - soi),
                       next |-> ResumeAt(soi, end)]

\* best.map(|(s, l)| &buffer[s..s + l])
BestSlice(b) == IF b = None THEN None ELSE Some(<<Unwrap(b)[1], Unwrap(b)[1] + Unwrap(b)[2]>>)

RECURSIVE ScanLoop(_, _, _)
ScanLoop(buf, from, b) ==
    LET st == ScanStep(buf, from, b)
    IN  IF st.matched THEN ScanLoop(buf, st.next, st.best) ELSE b

\* decode.rs:74-91
largest_jpeg_slice(buf) == BestSlice(ScanLoop(buf, 0, None))

\* canon.rs:68-85
find_largest_jpeg_slice(buf) == BestSlice(ScanLoop(buf, 0, None))

(***************************************************************************)
(* Canon: validity and displayability of a slice (given by its bytes).     *)
(***************************************************************************)
\* canon.rs:101-110
is_valid_jpeg(s) ==
    /\ ~(Len(s) < 4 \/ ~WindowAt(s, 0, SOI2))
    /\ \E i \in 0..(Len(s) - 2) : WindowAt(s, i, EOI)

\* canon.rs:119: .take(40)
DisplayWindows == 40

TakeWindows_39 == DisplayWindows - 1
TakeWindows == DisplayWindows

\* canon.rs:112-121
is_display_jpeg(s) ==
    /\ is_valid_jpeg(s)
    /\ \E i \in 0..(TakeWindows - 1) :
          WindowAt(s, i, APP0_JFIF) \/ WindowAt(s, i, APP1_EXIF)

\* the walk of find_display_jpeg_slice's or_else closure: one iteration
WalkStep(buf, from) ==
    LET st == ScanStep(buf, from, None) IN
    IF ~st.matched THEN [ret |-> TRUE, val |-> None, why |-> st.why]
    ELSE IF is_valid_jpeg(Bytes(buf, st.soi, st.end))
         THEN [ret |-> TRUE, val |-> Some(<<st.soi, st.end>>), why |-> "valid",
               soi |-> st.soi, end |-> st.end]
         ELSE [ret |-> FALSE, next |-> st.next, soi |-> st.soi, end |-> st.end]

RECURSIVE WalkLoop(_, _)
WalkLoop(buf, from) ==
    LET w == WalkStep(buf, from)
    IN  IF w.ret THEN w.val ELSE WalkLoop(buf, w.next)

\* canon.rs:123-144
find_display_jpeg_slice(buf) ==
    LET l == find_largest_jpeg_slice(buf) IN
    IF IsSome(l) /\ is_display_jpeg(Bytes(buf, Unwrap(l)[1], Unwrap(l)[2]))
    THEN l
    ELSE WalkLoop(buf, 0)

(***************************************************************************)
(* SpecScan: the scan loops, one loop iteration per step, on every buffer  *)
(* made of at most MaxTokens pieces of ScanTokens.                         *)
(***************************************************************************)
MaxTokens == 6

ScanTokens == {SOI, EOI, <<0>>, <<216>>, <<217>>}

TokenBuffers(toks, n) ==
    {Concat(ts) : ts \in UNION {[1..k -> toks] : k \in 0..n}}

ScanFns == {"largest_jpeg_slice", "find_largest_jpeg_slice"}
WalkFn == "find_display_jpeg_slice.walk"

InitScan ==
    /\ buffer \in TokenBuffers(ScanTokens, MaxTokens)
    /\ fn \in ScanFns \cup {WalkFn}
    /\ pc = "loop"
    /\ start = 0
    /\ best = None
    /\ visited = <<>>
    /\ meta = <<>>
    /\ result = None

\* the loop body ran: a candidate was matched and the scan resumes
ScanIter ==
    /\ pc = "loop"
    /\ fn \in ScanFns
    /\ LET st == ScanStep(buffer, start, best) IN
       /\ st.matched
       /\ best' = st.best
       /\ start' = st.next
       /\ visited' = Append(visited, <<st.soi, st.end>>)
    /\ UNCHANGED <<buffer, fn, pc, meta, result>>

\* the loop ended (no further marker, or the break): best is returned
ScanEnd ==
    /\ pc = "loop"
    /\ fn \in ScanFns
    /\ ~ScanStep(buffer, start, best).matched
    /\ pc' = "done"
    /\ result' = [kind |-> "returned", val |-> BestSlice(best)]
    /\ UNCHANGED <<buffer, fn, start, best, visited, meta>>

\* one iteration of the walk: it returns the first candidate that is a valid
\* JPEG, and goes on after a candidate that is not
WalkIter ==
    /\ pc = "loop"
    /\ fn = WalkFn
    /\ LET w == WalkStep(buffer, start) IN
       /\ w.ret => w.val # None
       /\ visited' = Append(visited, <<w.soi, w.end>>)
       /\ IF w.ret
          THEN /\ pc' = "done"
               /\ result' = [kind |-> "returned", val |-> w.val]
               /\ start' = start
          ELSE /\ pc' = pc
               /\ result' = result
               /\ start' = w.next
    /\ UNCHANGED <<buffer, fn, best, meta>>

\* the walk found no candidate: None
WalkEnd ==
    /\ pc = "loop"
    /\ fn = WalkFn
    /\ LET w == WalkStep(buffer, start) IN w.ret /\ w.val = None
    /\ pc' = "done"
    /\ result' = [kind |-> "returned", val |-> None]
    /\ UNCHANGED <<buffer, fn, start, best, visited, meta>>

NextScan == ScanIter \/ ScanEnd \/ WalkIter \/ WalkEnd

SpecScan == InitScan /\ [][NextScan]_vars

\* The loops run to their end: a loop that can take a step takes one.  The
\* behaviours are checked on the buffers of at most MaxLiveTokens pieces.
MaxLiveTokens == 4

LiveTokens == {SOI \o EOI, SOI, <<0>>}

InitLive ==
    /\ buffer \in TokenBuffers(LiveTokens, MaxLiveTokens)
    /\ fn \in ScanFns \cup {WalkFn}
    /\ pc = "loop"
    /\ start = 0
    /\ best = None
    /\ visited = <<>>
    /\ meta = <<>>
    /\ result = None

LiveScan == InitLive /\ [][NextScan]_vars /\ WF_vars(NextScan)


(***************************************************************************)
(* The vendor-container unwrap.  An index out of range panics: the result  *)
(* of a function is [kind |-> "panicked"] or what it returned.             *)
(***************************************************************************)
Panicked == [kind |-> "panicked"]
Returned(v) == [kind |-> "returned", val |-> v]

\* decode.rs:61,68: buffer[148..]
FujiHeaderLen == 148

\* decode.rs:66-72: the offset at which the returned view starts in buf.
\* buffer[..4] panics on fewer than 4 bytes, buffer[148..] on fewer than 148.
fuji_buffer_slice_fix(buf) ==
    IF Len(buf) < 4 THEN Panicked
    ELSE IF Bytes(buf, 0, 4) = FUJI_MAGIC
         THEN IF FujiHeaderLen > Len(buf) THEN Panicked ELSE Returned(FujiHeaderLen)
         ELSE Returned(0)

\* decode.rs:59-65: the same on an owned buffer; the bytes returned
fuji_buffer_fix(buf) ==
    IF Len(buf) < 4 THEN Panicked
    ELSE IF Bytes(buf, 0, 4) = FUJI_MAGIC
         THEN IF FujiHeaderLen > Len(buf) THEN Panicked
              ELSE Returned(Bytes(buf, FujiHeaderLen, Len(buf)))
         ELSE Returned(buf)

\* decode.rs:55: buffer.extend([0u8; 16])
PaddingLen == 16

\* decode.rs:54-58: what prepare_buffer hands to fuji_buffer_fix
Padded(buf) == buf \o Zeros(PaddingLen)

\* the bytes either function hands back for buf
UnwrapBytes(f, buf) ==
    IF f = "fuji_buffer_fix" THEN fuji_buffer_fix(buf)
    ELSE LET r == fuji_buffer_slice_fix(buf)
         IN  IF r.kind = "panicked" THEN r ELSE Returned(Bytes(buf, r.val, Len(buf)))

(***************************************************************************)
(* SpecUnwrap: the unwrap applied to a buffer, then to its own result.     *)
(* The buffers are the prefixes of head, 144 bytes, inner, 144 bytes, tail.*)
(* fuji_buffer_slice_fix is handed the caller's buffer (get_thumbnail,     *)
(* get_exif_info), fuji_buffer_fix the buffer prepare_buffer has padded;   *)
(* meta is the buffer the unwrap is handed.                                *)
(***************************************************************************)
MaxTail == 2

NotMagic == <<70, 85, 74, 0>>

UnwrapBuffers ==
    LET pad == Zeros(FujiHeaderLen - 4)
        full == {h \o pad \o i \o pad \o Zeros(MaxTail) :
                    h \in {FUJI_MAGIC, NotMagic}, i \in {FUJI_MAGIC, NotMagic}}
    IN  {SubSeq(b, 1, n) : b \in full, n \in 0..(2 * FujiHeaderLen + MaxTail)}

UnwrapFns == {"fuji_buffer_fix", "fuji_buffer_slice_fix"}

InitUnwrap ==
    /\ buffer \in UnwrapBuffers
    /\ fn \in UnwrapFns
    /\ pc = "call"
    /\ start = 0
    /\ best = None
    /\ visited = <<>>
    /\ meta = IF fn = "fuji_buffer_fix" THEN Padded(buffer) ELSE buffer
    /\ result = <<>>

\* the unwrap of the input buffer
UnwrapOnce ==
    /\ pc = "call"
    /\ LET r == UnwrapBytes(fn, meta) IN
       /\ result' = <<r>>
       /\ pc' = IF r.kind = "panicked" THEN "done" ELSE "again"
    /\ UNCHANGED <<buffer, fn, start, best, visited, meta>>

\* the unwrap of what the first application returned
UnwrapAgain ==
    /\ pc = "again"
    /\ result' = Append(result, UnwrapBytes(fn, result[1].val))
    /\ pc' = "done"
    /\ UNCHANGED <<buffer, fn, start, best, visited, meta>>

NextUnwrap == UnwrapOnce \/ UnwrapAgain

SpecUnwrap == InitUnwrap /\ [][NextUnwrap]_vars

(***************************************************************************)
(* Metadata sniffing with fallback, and get_thumbnail.                     *)
(*                                                                         *)
(* quickexif::parse is an external function of the slice it is given.      *)
(* Every slice the code parses is a suffix of the unwrapped buffer, so its *)
(* answers are given by the set `acc` of the suffix offsets it accepts; the*)
(* info or error of the parse of the suffix at offset p carries p.         *)
(***************************************************************************)
\* decode.rs:142,146: quickexif::parse(&unwrapped[p..], rule)
Parse(acc, p) ==
    IF p \in acc THEN [kind |-> "Ok", info |-> p]
    ELSE [kind |-> "Err", err |-> [kind |-> "ExifParseError", at |-> p]]

\* decode.rs:101-103
is_tiff_header(bytes) == bytes = TIFF_LE \/ bytes = TIFF_BE

TiffHeaderAt(buf, p) == p + 4 <= Len(buf) /\ is_tiff_header(Bytes(buf, p, p + 4))

\* buf[from..].windows(4).position(|w| is_tiff_header(w))
TiffPosition(buf, from) ==
    LET hits == {i \in from..(Len(buf) - 4) : TiffHeaderAt(buf, i)}
    IN  IF hits = {} THEN None ELSE Some(Min(hits) - from)

\* decode.rs:120-126: the forward scan from the end of the Exif marker
ForwardScan_FromZero(buf, after_exif) == TiffPosition(buf, after_exif)
ForwardScan(buf, after_exif) ==
    LET rel == TiffPosition(buf, after_exif)
    IN  IF rel = None THEN None ELSE Some(after_exif + Unwrap(rel))

\* decode.rs:105-135: the offset in buf at which the returned suffix starts
canon_cr3_exif_slice(buf) ==
    LET pos == Position(buf, 0, EXIF_HEADER)
        after_exif == Unwrap(pos) + Len(EXIF_HEADER)
        whole == TiffPosition(buf, 0)
    IN  IF IsSome(pos) /\ TiffHeaderAt(buf, after_exif) THEN Some(after_exif)
        ELSE IF IsSome(pos) /\ IsSome(ForwardScan(buf, after_exif))
             THEN ForwardScan(buf, after_exif)
             ELSE whole

\* decode.rs:137-152: Ok((info, effective buffer)), the effective buffer given by
\* its offset in buf, or Err(e); panics where the unwrap panics
parse_basic_info_with_fallback(buf, acc) ==
    LET fix == fuji_buffer_slice_fix(buf) IN
    IF fix.kind = "panicked" THEN Panicked
    ELSE LET u == Bytes(buf, fix.val, Len(buf))
             first == Parse(acc, 0)
             exif == canon_cr3_exif_slice(u)
         IN  IF first.kind = "Ok"
             THEN [kind |-> "Ok", info |-> first.info, eff |-> fix.val]
             ELSE IF IsSome(exif)
                  THEN LET second == Parse(acc, Unwrap(exif))
                       IN  IF second.kind = "Ok"
                           THEN [kind |-> "Ok", info |-> second.info,
                                 eff |-> fix.val + Unwrap(exif)]
                           ELSE second
                  ELSE first

\* decode.rs:93-100
try_cr3_thumbnail(buf) ==
    LET is_cr3 == IF 12 <= Len(buf) THEN Bytes(buf, 4, 12) = CR3_FTYP ELSE FALSE
    IN  IF ~is_cr3 THEN None
        ELSE LET jpeg == largest_jpeg_slice(buf)
             IN  IF jpeg = None THEN None ELSE Some(<<Unwrap(jpeg), "Horizontal">>)

\* decode.rs:190-196: sniffing failed with e
LastResort_NoScan(buf, e) == [kind |-> "Err", err |-> e]
LastResort(buf, e) ==
    LET jpeg == largest_jpeg_slice(buf)
    IN  IF IsSome(jpeg)
        THEN [kind |-> "Ok", val |-> Unwrap(jpeg), orientation |-> "Horizontal"]
        ELSE [kind |-> "Err", err |-> e]

\* maker::selector::select_and_decode_thumbnail(effective buffer, info): what it
\* may answer.  A slice it returns is a view into the effective buffer.
SelectorAnswers(buf, eff) ==
    {[kind |-> "Ok", val |-> <<s, Len(buf)>>, orientation |-> o] :
        s \in {eff}, o \in {"Horizontal", "Rotate90"}}
    \cup {[kind |-> "Err", err |-> [kind |-> k]] :
            k \in {"CannotReadMake", "ModelIsNotSupportedYet", "DecodingError"}}

\* decode.rs:180-198, sel the selector's answer when it is asked
get_thumbnail(buf, acc, sel) ==
    LET cr3 == try_cr3_thumbnail(buf)
        sniff == parse_basic_info_with_fallback(buf, acc)
    IN  IF IsSome(cr3)
        THEN [kind |-> "Ok", val |-> Unwrap(cr3)[1], orientation |-> Unwrap(cr3)[2]]
        ELSE IF sniff.kind = "panicked" THEN Panicked
             ELSE IF sniff.kind = "Ok" THEN sel
                  ELSE LastResort(buf, sniff.err)

(***************************************************************************)
(* Spec: get_thumbnail and parse_basic_info_with_fallback (as get_exif_info*)
(* calls it) on every buffer made of at most MaxPieces pieces of Pieces,   *)
(* with every answer of the parser.                                        *)
(***************************************************************************)
MaxPieces == 4

Pieces ==
    {FUJI_MAGIC, Zeros(FujiHeaderLen - 4), <<0, 0, 0, 24>> \o CR3_FTYP,
     EXIF_HEADER, TIFF_LE, TIFF_BE, SOI \o EOI, <<0>>}

\* the suffixes of the unwrapped buffer the parser can be asked about
ParseOffsets(buf) ==
    LET fix == fuji_buffer_slice_fix(buf) IN
    IF fix.kind = "panicked" THEN {}
    ELSE {0} \cup {p \in 0..Len(buf) : TiffHeaderAt(Bytes(buf, fix.val, Len(buf)), p)}

Init ==
    /\ buffer \in TokenBuffers(Pieces, MaxPieces)
    /\ fn = "caller"
    /\ pc = "call"
    /\ start = 0
    /\ best = None
    /\ visited = <<>>
    /\ meta \in [acc : SUBSET ParseOffsets(buffer)]
    /\ result = None

\* the caller holds the buffer and calls one of the two functions
GetThumbnail ==
    /\ pc = "call"
    /\ fn' = "get_thumbnail"
    /\ LET sniff == parse_basic_info_with_fallback(buffer, meta.acc)
           answers == IF sniff.kind = "Ok" /\ try_cr3_thumbnail(buffer) = None
                      THEN SelectorAnswers(buffer, sniff.eff)
                      ELSE {[kind |-> "unasked"]}
       IN  \E sel \in answers :
              result' = get_thumbnail(buffer, meta.acc, sel)
    /\ pc' = "done"
    /\ UNCHANGED <<buffer, start, best, visited, meta>>

SniffWithFallback ==
    /\ pc = "call"
    /\ fn' = "parse_basic_info_with_fallback"
    /\ result' = parse_basic_info_with_fallback(buffer, meta.acc)
    /\ pc' = "done"
    /\ UNCHANGED <<buffer, start, best, visited, meta>>

Next == GetThumbnail \/ SniffWithFallback

Spec == Init /\ [][Next]_vars

(***************************************************************************)
(* The Canon decoder's thumbnail.  info holds the fields `thumbnail` and   *)
(* `thumbnail_len` of the parsed metadata, each an Option.                 *)
(***************************************************************************)
\* canon.rs:87-99
jpeg_from_exif(buf, info) ==
    IF info.thumbnail = None \/ info.thumbnail_len = None THEN None
    ELSE LET offset == Unwrap(info.thumbnail)
             len == Unwrap(info.thumbnail_len)
         IN  IF offset + len > Len(buf) \/ len < 4 THEN None
             ELSE IF is_display_jpeg(Bytes(buf, offset, offset + len))
                  THEN Some(<<offset, offset + len>>)
                  ELSE None

\* canon.rs:51-65
General_get_thumbnail(buf, info) ==
    LET exif_jpeg == jpeg_from_exif(buf, info)
        scanned == find_display_jpeg_slice(buf)
    IN  IF IsSome(exif_jpeg) THEN [kind |-> "Ok", val |-> Unwrap(exif_jpeg)]
        ELSE IF IsSome(scanned) THEN [kind |-> "Ok", val |-> Unwrap(scanned)]
             ELSE [kind |-> "Err", err |-> [kind |-> "FieldNotFound", field |-> "thumbnail"]]

(***************************************************************************)
(* SpecCanon: the Canon decoder's get_thumbnail on every buffer made of at *)
(* most MaxSegs segments, with the thumbnail declared at segment bounds,   *)
(* one byte short or long of them, or not declared.                        *)
(***************************************************************************)
MaxSegs == 3
MaxFill == 2

\* a lossless raw JPEG payload (no APP marker), a JFIF preview, an EXIF preview
RawJpeg(n) == SOI2 \o <<255, 196>> \o Zeros(n) \o EOI
JfifJpeg(n) == SOI2 \o APP0_JFIF \o Zeros(n) \o EOI
ExifJpeg(n) == SOI2 \o APP1_EXIF \o Zeros(n) \o EOI

CanonSegs ==
    {RawJpeg(n) : n \in 0..MaxFill} \cup {JfifJpeg(n) : n \in 0..MaxFill}
    \cup {ExifJpeg(0), <<0>>, SOI2 \o <<255, 196, 0>>}

SegLists == UNION {[1..k -> CanonSegs] : k \in 0..MaxSegs}

\* offset of segment i in the concatenation, i in 1..Len(segs) + 1
RECURSIVE SegOffset(_, _)
SegOffset(segs, i) == IF i = 1 THEN 0 ELSE SegOffset(segs, i - 1) + Len(segs[i - 1])

DeclaredInfos(segs) ==
    {[thumbnail |-> None, thumbnail_len |-> None],
     [thumbnail |-> Some(0), thumbnail_len |-> None],
     [thumbnail |-> Some(0), thumbnail_len |-> Some(3)]}
    \cup {[thumbnail |-> Some(SegOffset(segs, x[1])),
           thumbnail_len |-> Some(SegOffset(segs, x[2] + 1) - SegOffset(segs, x[1]) + x[3])] :
            x \in {y \in (1..Len(segs)) \X (1..Len(segs)) \X {0, 1} : y[1] <= y[2]}}

InitCanon ==
    /\ \E segs \in SegLists :
          /\ buffer = Concat(segs)
          /\ meta \in DeclaredInfos(segs)
    /\ fn = "General::get_thumbnail"
    /\ pc = "call"
    /\ start = 0
    /\ best = None
    /\ visited = <<>>
    /\ result = None

CanonGetThumbnail ==
    /\ pc = "call"
    /\ fn = "General::get_thumbnail"
    /\ result' = General_get_thumbnail(buffer, meta)
    /\ pc' = "done"
    /\ UNCHANGED <<buffer, fn, start, best, visited, meta>>

NextCanon == CanonGetThumbnail

SpecCanon == InitCanon /\ [][NextCanon]_vars

(***************************************************************************)
(* SpecDisplay: is_valid_jpeg and is_display_jpeg on the slices            *)
(* head, zeros, marker at offset p, zeros, tail, for p up to MaxMarkerPos. *)
(***************************************************************************)
MaxMarkerPos == 84
MaxGap == 1

DisplaySlices ==
    {h \o Zeros(p - 2) \o m \o Zeros(g) \o e :
        h \in {SOI2, <<0, 216>>},
        p \in 2..MaxMarkerPos,
        m \in {APP0_JFIF, APP1_EXIF, <<255, 224, 74>>, <<>>},
        g \in 0..MaxGap,
        e \in {EOI, <<>>}}

InitDisplay ==
    /\ buffer \in DisplaySlices
    /\ fn \in {"is_valid_jpeg", "is_display_jpeg"}
    /\ pc = "call"
    /\ start = 0
    /\ best = None
    /\ visited = <<>>
    /\ meta = <<>>
    /\ result = None

IsValidJpeg ==
    /\ pc = "call"
    /\ fn = "is_valid_jpeg"
    /\ result' = Returned(is_valid_jpeg(buffer))
    /\ pc' = "done"
    /\ UNCHANGED <<buffer, fn, start, best, visited, meta>>

IsDisplayJpeg ==
    /\ pc = "call"
    /\ fn = "is_display_jpeg"
    /\ result' = Returned(is_display_jpeg(buffer))
    /\ pc' = "done"
    /\ UNCHANGED <<buffer, fn, start, best, visited, meta>>

NextDisplay == IsValidJpeg \/ IsDisplayJpeg

SpecDisplay == InitDisplay /\ [][NextDisplay]_vars

(***************************************************************************)
(* Claims about the scan (SpecScan, LiveScan).                             *)
(***************************************************************************)
ScanDone == pc = "done" /\ fn \in ScanFns

\* positions of the markers in the buffer
SoiAt(p) == WindowAt(buffer, p, SOI)
EoiAt(p) == WindowAt(buffer, p, EOI)

\* C5: the slice largest_jpeg_slice / find_largest_jpeg_slice returns, if any,
\* lies inside the input buffer, begins with FF D8 FF and ends with FF D9.
C5_SliceWellFormed ==
    (ScanDone /\ IsSome(result.val)) =>
        LET s == Unwrap(result.val)[1]
            e == Unwrap(result.val)[2]
            b == Bytes(buffer, s, e)
        IN  /\ 0 <= s /\ s <= e /\ e <= Len(buffer)
            /\ WindowAt(b, 0, SOI)
            /\ WindowAt(b, Len(b) - 2, EOI)

\* a scan that compared several candidates returned a slice
C5_Witness == ScanDone /\ IsSome(result.val) /\ Len(visited) >= 2

\* The runs of the specification: from a start-of-image marker through the last
\* end-of-image marker before the next start-of-image marker (or the buffer's end).
NextSoiAfter(s) ==
    LET later == {p \in (s + 3)..Len(buffer) : SoiAt(p)}
    IN  IF later = {} THEN Len(buffer) ELSE Min(later)

EoisOfRun(s) == {p \in (s + 3)..(NextSoiAfter(s) - 2) : EoiAt(p)}

Runs == {<<s, Max(EoisOfRun(s)) + 2>> : s \in {p \in 0..Len(buffer) : SoiAt(p) /\ EoisOfRun(p) # {}}}

Disjoint(r1, r2) == r1[2] <= r2[1] \/ r2[2] <= r1[1]

TwoDisjointRuns == \E r1, r2 \in Runs : r1 # r2 /\ Disjoint(r1, r2)

\* C6 as stated: on a buffer with two or more disjoint FFD8FF...FFD9 runs the scan
\* returns the longest run in full.
C6_ReturnsLongestRun ==
    (ScanDone /\ TwoDisjointRuns) =>
        /\ IsSome(result.val)
        /\ Unwrap(result.val) \in Runs
        /\ \A r \in Runs : r[2] - r[1] <= Unwrap(result.val)[2] - Unwrap(result.val)[1]

\* C6 amended: the scan returns the longest of the candidates it matched (each cut
\* at its first FF D9), the earliest of them when several are equally long, and
\* None when it matched none.
C6_LongestCandidate ==
    ScanDone =>
        IF visited = <<>> THEN result.val = None
        ELSE /\ IsSome(result.val)
             /\ \E i \in 1..Len(visited) :
                   /\ visited[i] = Unwrap(result.val)
                   /\ \A j \in 1..Len(visited) :
                         LET li == visited[i][2] - visited[i][1]
                             lj == visited[j][2] - visited[j][1]
                         IN  lj <= li /\ (lj = li => i <= j)

\* two candidates of different lengths, the longer one second, in a buffer with
\* two disjoint runs
C6_Witness ==
    /\ ScanDone /\ TwoDisjointRuns
    /\ Len(visited) >= 2
    /\ visited[2][2] - visited[2][1] > visited[1][2] - visited[1][1]
    /\ result.val = Some(visited[2])

\* C7 as stated: every candidate runs through the last FF D9 before the next
\* start-of-image marker.
C7_ThroughLastEoi ==
    fn \in ScanFns =>
        \A i \in 1..Len(visited) :
            /\ EoisOfRun(visited[i][1]) # {}
            /\ visited[i][2] = Max(EoisOfRun(visited[i][1])) + 2

\* C7 amended: every candidate runs from a start-of-image marker FF D8 FF through
\* the first FF D9 located after the three marker bytes; a later FF D9 of the
\* same run is left out.
C7_ThroughFirstEoi ==
    fn \in ScanFns =>
        \A i \in 1..Len(visited) :
            LET s == visited[i][1]
                e == visited[i][2]
            IN  /\ SoiAt(s)
                /\ e - 2 >= s + 3
                /\ EoiAt(e - 2)
                /\ \A p \in (s + 3)..(e - 3) : ~EoiAt(p)

\* a candidate whose run holds a further FF D9 after the one that ended it
C7_Witness ==
    /\ fn \in ScanFns
    /\ \E i \in 1..Len(visited) :
          \E p \in visited[i][2]..(NextSoiAfter(visited[i][1]) - 2) : EoiAt(p)

\* C10: every iteration resumes at the end of the slice it matched, beyond the
\* previous resume position and within the buffer; the slices visited do not
\* overlap; and every loop ends.
C10_Resume ==
    (Len(visited') > Len(visited) /\ pc' = "loop") =>
        /\ start' > start
        /\ start' <= Len(buffer)
        /\ start' = visited'[Len(visited')][2]

C10_NonOverlapping ==
    \A i, j \in 1..Len(visited) :
        i < j => /\ visited[i][1] < visited[i][2]
                 /\ visited[i][2] <= visited[j][1]
                 /\ visited[j][2] <= Len(buffer)

C10_ScanTerminates ==
    /\ [][C10_Resume]_vars
    /\ []C10_NonOverlapping
    /\ <>(pc = "done")

\* a scan that ran its loop body three times and ended
C10_Witness == pc = "done" /\ Len(visited) >= 3

(***************************************************************************)
(* Claims about the unwrap (SpecUnwrap).                                   *)
(***************************************************************************)
\* C3: on a buffer whose first 4 bytes are the vendor magic the unwrap returns the
\* input without its first 148 bytes, and the unwrap of that result returns it
\* unchanged.
C3_UnwrapStripsHeaderOnce ==
    WindowAt(meta, 0, FUJI_MAGIC) =>
        /\ Len(result) >= 1 =>
              result[1] = Returned(Bytes(meta, FujiHeaderLen, Len(meta)))
        /\ Len(result) >= 2 => result[2] = result[1]
        /\ pc = "done" => Len(result) = 2

(***************************************************************************)
(* Claims about get_thumbnail and the sniffing (Spec).                     *)
(***************************************************************************)
ThumbDone == pc = "done" /\ fn = "get_thumbnail"
SniffDone == pc = "done" /\ fn = "parse_basic_info_with_fallback"

\* C1: get_thumbnail ends in a returned Ok or Err on every input; no step panics.
C1_AlwaysReturns == ThumbDone => result.kind \in {"Ok", "Err"}

\* the unwrapped buffer, where the unwrap returns
FixOffset == fuji_buffer_slice_fix(buffer).val
Unwrapped == Bytes(buffer, FixOffset, Len(buffer))
UnwrapReturns == fuji_buffer_slice_fix(buffer).kind = "returned"
PrimaryFails == 0 \notin meta.acc

\* the first Exif marker of the unwrapped buffer
MarkerPos ==
    LET hits == {p \in 0..Len(Unwrapped) : WindowAt(Unwrapped, p, EXIF_HEADER)}
    IN  IF hits = {} THEN None ELSE Some(Min(hits))

\* the offsets of the unwrapped buffer at which a TIFF header stands
Headers == {p \in 0..Len(Unwrapped) :
                \/ WindowAt(Unwrapped, p, TIFF_LE)
                \/ WindowAt(Unwrapped, p, TIFF_BE)}

\* the three searches, each giving the offset of the header it locates:
\* (a) right after the marker, (b) the first one from the marker's end on,
\* (c) the first one of the whole buffer
Searches ==
    LET m == MarkerPos
        hs == Headers
        after == Unwrap(m) + 6
        fwd == {p \in hs : p >= after}
    IN  [marker |-> m,
         a |-> IF IsSome(m) /\ after \in hs THEN Some(after) ELSE None,
         b |-> IF IsSome(m) /\ fwd # {} THEN Some(Min(fwd)) ELSE None,
         c |-> IF hs # {} THEN Some(Min(hs)) ELSE None]

Accepted(x) == IsSome(x) /\ Unwrap(x) \in meta.acc

\* C9: after the primary parse failed, the sniffing fails only if none of the
\* searches (a), (b), (c) locates a sub-slice the parser accepts, (c) counted when
\* no marker was found; on success the effective buffer is the suffix of the
\* unwrapped buffer at the located TIFF header, with the info parsed from it.
C9_FallbackSearches ==
    (SniffDone /\ UnwrapReturns /\ PrimaryFails) =>
        LET s == Searches IN
        /\ result.kind \in {"Ok", "Err"}
        /\ result.kind = "Err" =>
              /\ ~Accepted(s.a)
              /\ ~Accepted(s.b)
              /\ s.marker = None => ~Accepted(s.c)
        /\ result.kind = "Ok" =>
              LET p == result.eff - FixOffset IN
              /\ Some(p) \in {s.a, s.b, s.c}
              /\ WindowAt(Unwrapped, p, TIFF_LE) \/ WindowAt(Unwrapped, p, TIFF_BE)
              /\ p \in meta.acc
              /\ result.info = p

\* the forward scan (b) located the header, at a distance from the marker, behind
\* an earlier header, and the parser accepted the sub-slice
C9_Witness ==
    /\ SniffDone /\ UnwrapReturns /\ PrimaryFails
    /\ result.kind = "Ok"
    /\ Searches.a = None /\ IsSome(Searches.b)
    /\ Searches.c # Searches.b

Cr3Nothing == try_cr3_thumbnail(buffer) = None
SniffResult == parse_basic_info_with_fallback(buffer, meta.acc)

\* what the last resort returns when the sniffing failed with the error e
ExpectedLastResort(e) ==
    LET jpeg == largest_jpeg_slice(buffer) IN
    IF IsSome(jpeg)
    THEN [kind |-> "Ok", val |-> Unwrap(jpeg), orientation |-> "Horizontal"]
    ELSE [kind |-> "Err", err |-> e]

\* C8 as stated: when the fast path yields nothing and the sniffing fails, the
\* result is the largest JPEG slice of the original buffer, Horizontal, or else
\* the error of the primary parse; when the sniffing succeeded the selector's
\* answer is returned as is.
C8_PrimaryErrorPropagated ==
    (ThumbDone /\ UnwrapReturns /\ Cr3Nothing) =>
        LET sniff == SniffResult IN
        IF sniff.kind = "Err"
        THEN result = ExpectedLastResort([kind |-> "ExifParseError", at |-> 0])
        ELSE result \in SelectorAnswers(buffer, sniff.eff)

\* C8 amended: ... or else the error the sniffing returned: the primary parse's
\* when no embedded TIFF header was located, and the error of the parse of the
\* located sub-slice when one was.
C8_SniffErrorPropagated ==
    (ThumbDone /\ UnwrapReturns /\ Cr3Nothing) =>
        LET sniff == SniffResult IN
        IF sniff.kind = "Err"
        THEN LET s == Searches
                 loc == IF IsSome(s.a) THEN s.a ELSE IF IsSome(s.b) THEN s.b ELSE s.c
                 at == IF IsSome(loc) THEN Unwrap(loc) ELSE 0
             IN  result = ExpectedLastResort([kind |-> "ExifParseError", at |-> at])
        ELSE result \in SelectorAnswers(buffer, sniff.eff)

\* the primary parse failed, a header was located behind the start of the buffer,
\* its sub-slice was rejected, no JPEG slice was found: that parse's error is returned
C8_Witness ==
    /\ ThumbDone /\ Cr3Nothing /\ UnwrapReturns
    /\ SniffResult.kind = "Err"
    /\ largest_jpeg_slice(buffer) = None
    /\ result.kind = "Err"
    /\ result.err.at > 0

(***************************************************************************)
(* Claims about the Canon decoder (SpecCanon, SpecDisplay).                *)
(***************************************************************************)
CanonDone == pc = "done" /\ fn = "General::get_thumbnail"

Declared == <<Unwrap(meta.thumbnail), Unwrap(meta.thumbnail) + Unwrap(meta.thumbnail_len)>>

\* the declared slice is in the buffer and long enough to be looked at
DeclaredInBounds ==
    /\ IsSome(meta.thumbnail) /\ IsSome(meta.thumbnail_len)
    /\ Declared[2] <= Len(buffer)
    /\ Unwrap(meta.thumbnail_len) >= 4

\* a displayable JPEG slice, from a start-of-image marker through an end-of-image
\* marker, that shares no byte with the declared slice
DisplayableElsewhere ==
    \E s \in 0..Len(buffer), e \in 0..Len(buffer) :
        /\ s < e
        /\ Disjoint(<<s, e>>, Declared)
        /\ WindowAt(buffer, s, SOI)
        /\ WindowAt(buffer, e - 2, EOI)
        /\ is_display_jpeg(Bytes(buffer, s, e))

\* C2: when the declared slice is in bounds but not displayable and the buffer
\* holds a displayable JPEG slice elsewhere, the decoder returns a displayable
\* slice, never the declared one.
C2_ReturnsDisplayableElsewhere ==
    (/\ CanonDone
     /\ DeclaredInBounds
     /\ ~is_display_jpeg(Bytes(buffer, Declared[1], Declared[2]))
     /\ DisplayableElsewhere) =>
        /\ result.kind = "Ok"
        /\ result.val # Declared
        /\ is_display_jpeg(Bytes(buffer, result.val[1], result.val[2]))

DisplayDone == pc = "done" /\ fn = "is_display_jpeg"

\* the slice is a valid JPEG: at least 4 bytes, FF D8 first, FF D9 somewhere
ValidSlice ==
    /\ Len(buffer) >= 4
    /\ buffer[1] = 255 /\ buffer[2] = 216
    /\ \E i \in 1..(Len(buffer) - 1) : buffer[i] = 255 /\ buffer[i + 1] = 217

JfifAt(p) == WindowAt(buffer, p, APP0_JFIF)
ExifAt(p) == WindowAt(buffer, p, APP1_EXIF)

\* C4 as stated: a valid JPEG slice with FF E0 'J' 'F' within its first 80 bytes
\* is displayable; a slice with neither marker within them is not.
C4_MarkerInFirst80Bytes ==
    DisplayDone =>
        /\ (ValidSlice /\ \E p \in 0..76 : JfifAt(p)) => result.val = TRUE
        /\ (\A p \in 0..79 : ~JfifAt(p) /\ ~ExifAt(p)) => result.val = FALSE

\* C4 amended: a valid JPEG slice with FF E0 'J' 'F' starting at one of its first
\* 40 byte offsets (0..39) is displayable; a slice with neither marker starting
\* within its first 80 bytes is not.
C4_MarkerInFirst40Windows ==
    DisplayDone =>
        /\ (ValidSlice /\ \E p \in 0..39 : JfifAt(p)) => result.val = TRUE
        /\ (\A p \in 0..79 : ~JfifAt(p) /\ ~ExifAt(p)) => result.val = FALSE

\* the marker at the last offset the classification looks at
C4_Witness == DisplayDone /\ ValidSlice /\ JfifAt(39) /\ result.val = TRUE

=============================================================================
